---- MODULE Spec2Model ----
(***************************************************************************)
(* Model of api/scrape.py: the request handler (handler.do_POST), the      *)
(* content-extraction fallback pipeline (fetch_page) and the helpers that   *)
(* decide what text the pipeline returns.                                   *)
(*                                                                          *)
(* A string is modelled by the three lengths the code looks at: its         *)
(* leading whitespace, its stripped core, its trailing whitespace, plus     *)
(* the document it was extracted from (src) and whether the truncation      *)
(* marker was appended (cut).  len() is the sum, str.strip() drops the two  *)
(* whitespace runs.                                                         *)
(***************************************************************************)
EXTENDS Integers, Sequences, FiniteSets, TLC

\* ------------------------------------------------------------------ bounds
\* Lengths are sampled within Slack of every length the code compares with.
Slack == 1
\* Longest run of leading or trailing whitespace of an OpenAPI summary.
MaxPad == 1
\* Longest reply of the summarizer, in tokens, that _parse_ai_json is run on.
MaxReply == 6

\* --------------------------------------------------------------- constants
\* fetch_page: len(content.strip()) < 200
Threshold == 200
\* do_POST: len(page_content.strip()) < 50
MinContent == 50
\* len(text) > 12000; text[:12000]
TextLimit == 12000
\* "\n\n[Content truncated...]": two newlines, then 22 visible characters
MarkerWs == 2
MarkerInk == 22

MarkerLen == MarkerWs + MarkerInk

Min(a, b) == IF a < b THEN a ELSE b

\* ------------------------------------------------------------------ strings
EmptyStr == [src |-> "empty", lead |-> 0, body |-> 0, trail |-> 0, cut |-> FALSE]

\* A local variable that has not been assigned.
Unset == [src |-> "unset", lead |-> 0, body |-> 0, trail |-> 0, cut |-> FALSE]

MkText(s, l, b, t) ==
    IF l + b + t = 0 THEN EmptyStr
    ELSE [src |-> s, lead |-> l, body |-> b, trail |-> t, cut |-> FALSE]

\* len(s)
StrLen(s) == s.lead + s.body + s.trail

\* s.strip()
Strip(s) == [s EXCEPT !.lead = 0, !.trail = 0]

\* len(s.strip())
TrimLen(s) == StrLen(Strip(s))

\* if len(text) > 12000: text = text[:12000] + "\n\n[Content truncated...]"
\* The first 12000 characters keep the leading whitespace, then the core,
\* then the trailing whitespace; the marker's visible characters end the
\* string, so whatever follows the first visible character is core.
TruncateGE(s) ==
    IF StrLen(s) >= TextLimit
    THEN LET keptLead == Min(s.lead, TextLimit)
             keptBody == Min(s.body, TextLimit - keptLead)
             keptTrail == TextLimit - keptLead - keptBody
         IN  IF keptBody = 0
             THEN [src |-> s.src, lead |-> TextLimit + MarkerWs,
                   body |-> MarkerInk, trail |-> 0, cut |-> TRUE]
             ELSE [src |-> s.src, lead |-> keptLead,
                   body |-> keptBody + keptTrail + MarkerLen,
                   trail |-> 0, cut |-> TRUE]
    ELSE s

Truncate(s) ==
    IF StrLen(s) > TextLimit
    THEN LET keptLead == Min(s.lead, TextLimit)
             keptBody == Min(s.body, TextLimit - keptLead)
             keptTrail == TextLimit - keptLead - keptBody
         IN  IF keptBody = 0
             THEN [src |-> s.src, lead |-> TextLimit + MarkerWs,
                   body |-> MarkerInk, trail |-> 0, cut |-> TRUE]
             ELSE [src |-> s.src, lead |-> keptLead,
                   body |-> keptBody + keptTrail + MarkerLen,
                   trail |-> 0, cut |-> TRUE]
    ELSE s

\* ------------------------------------------------------------------ inputs
Pivots == {MinContent, Threshold, TextLimit}

\* The text lengths a document may carry: none, and every length within
\* Slack of a length the code compares with.
TextLens == {0} \cup {p + d : p \in Pivots, d \in (0 - Slack)..Slack}

Pads == 0..MaxPad

\* A fetched HTML page: the length of its visible text (after the removal
\* of script/style/nav/... and the newline collapse), whether it references
\* an API specification, and the length of the text its embedded JSON
\* (__NEXT_DATA__, __NUXT__, application/json, ld+json) yields.
Pages == [text : TextLens, spec : BOOLEAN, json : TextLens]

NoPage == [text |-> 0, spec |-> FALSE, json |-> 0]

\* "\n".join(parts) of _summarize_openapi before truncation: never empty
\* (a "## ... API Endpoints" heading is always a part), with a leading
\* newline when the spec has no info, and whatever whitespace ends the
\* last part.
Summaries == {MkText("openapi", l, b, t) : l \in Pads, b \in TextLens \ {0}, t \in Pads}

\* ---------------------------------------------------------------- exceptions
\* requests.exceptions: Timeout, ConnectionError and HTTPError are
\* RequestExceptions; the others are not.
IsRequestExceptionNarrow(e) == e \in {"Timeout", "ConnectionError", "HTTPError"}

IsRequestException(e) ==
    e \in {"RequestException", "Timeout", "ConnectionError", "HTTPError"}

IsTimeout(e) == e = "Timeout"

\* What requests.get(...) followed by raise_for_status() may raise.
TransportErrors == {"Timeout", "ConnectionError", "HTTPError"}

\* os.environ.get(NAME): None when unset, else the string, which may be empty.
EnvValues == {"None", "", "key"}

\* if not api_key / if sb_key
Truthy(v) == v \notin {"None", ""}

\* The POST body: not JSON, JSON without a url, JSON with a url that
\* starts with http:// or https:// ("url"), or with one that does not
\* ("bare").
Requests == {"badjson", "nourl", "url", "bare"}

\* if not url.startswith(("http://", "https://")): url = "https://" + url
NormalizeUrl(r) == IF r = "bare" THEN "https://host" ELSE "http://host"

\* ------------------------------------------------------------ reply text
\* The summarizer's reply is a sequence of tokens: "{" and "}" (braces),
\* "f" (a fence: three backticks), "q" (a double quote), "j" (the word
\* json, which is prose wherever it is not a fence's tag) and "w" (a
\* space, the whitespace of the model).  Between two quotes every token
\* is a character of the string.
Tokens == {"{", "}", "f", "q", "j", "w"}

\* s[a..b], empty when b < a
Slice(s, a, b) == IF b < a THEN <<>> ELSE SubSeq(s, a, b)

Positions(s, tok) == {i \in DOMAIN s : s[i] = tok}

SetMin(S) == CHOOSE x \in S : \A y \in S : x <= y

SetMax(S) == CHOOSE x \in S : \A y \in S : x >= y

\* str.strip()
StripSeq(s) ==
    LET ink == {i \in DOMAIN s : s[i] # "w"}
    IN  IF ink = {} THEN <<>> ELSE SubSeq(s, SetMin(ink), SetMax(ink))

\* A JSON string: a quote, characters that are not quotes, a quote.
IsJsonString(s) ==
    /\ Len(s) >= 2
    /\ s[1] = "q" /\ s[Len(s)] = "q"
    /\ \A i \in 2..(Len(s) - 1) : s[i] # "q"

\* A JSON object: braces around nothing or around one member, which the
\* model writes as one string, with whitespace allowed around it.
IsJsonObject(s) ==
    /\ Len(s) >= 2
    /\ s[1] = "{" /\ s[Len(s)] = "}"
    /\ LET inner == StripSeq(Slice(s, 2, Len(s) - 1))
       IN  inner = <<>> \/ IsJsonString(inner)

ParseFailure == [ok |-> FALSE, kind |-> "none", value |-> <<>>]

\* json.loads(text): the value, whitespace around it allowed; any JSON
\* value parses, an object or not.  ok is FALSE for JSONDecodeError.
JsonLoads(s) ==
    LET t == StripSeq(s)
    IN  IF IsJsonObject(t) THEN [ok |-> TRUE, kind |-> "object", value |-> t]
        ELSE IF IsJsonString(t) THEN [ok |-> TRUE, kind |-> "string", value |-> t]
        ELSE ParseFailure

\* fence_match = re.search(<fence>(?:json)?\s*\n?(.*?)\n?\s*<fence>): the
\* leftmost opening fence that has a fence after it, and the lazy group up
\* to the next fence; the tag and the whitespace after the fence are not
\* part of the group.
HasFence(s) == Cardinality(Positions(s, "f")) >= 2

FenceGroup(s) ==
    LET open == SetMin(Positions(s, "f"))
        close == SetMin(Positions(s, "f") \ {open})
        inner == Slice(s, open + 1, close - 1)
        untagged == IF inner # <<>> /\ inner[1] = "j" THEN Tail(inner) ELSE inner
    IN  StripSeq(untagged)

\* re.search(r"\{.*\}", text, re.DOTALL): from the first "{" to the last "}".
HasBraces(s) ==
    /\ Positions(s, "{") # {}
    /\ \E b \in Positions(s, "}") : b > SetMin(Positions(s, "{"))

BraceSpan(s) == SubSeq(s, SetMin(Positions(s, "{")), SetMax(Positions(s, "}")))

\* _parse_ai_json(raw)
ParseAiJson(rawtext) ==
    LET stripped == StripSeq(rawtext)
        text == IF HasFence(stripped) THEN FenceGroup(stripped) ELSE stripped
        direct == JsonLoads(text)
    IN  IF direct.ok THEN direct
        ELSE IF HasBraces(text) THEN JsonLoads(BraceSpan(text))
        ELSE ParseFailure

\* The replies the summarizer gives in a request: the text, and whether the
\* object it carries (if any) has a true "supported".  An object alone, an
\* object in a tagged fence, an object after prose, prose alone, a JSON
\* string, an object whose string holds a fenced block, and nothing.
Replies ==
    {[text |-> <<"{", "q", "j", "q", "}">>, supported |-> TRUE],
     [text |-> <<"{", "q", "j", "q", "}">>, supported |-> FALSE],
     [text |-> <<"f", "j", "w", "{", "q", "j", "q", "}", "w", "f">>, supported |-> TRUE],
     [text |-> <<"j", "w", "{", "}">>, supported |-> FALSE],
     [text |-> <<"j", "j">>, supported |-> FALSE],
     [text |-> <<"q", "j", "q">>, supported |-> FALSE],
     [text |-> <<"{", "q", "f", "j", "f", "q", "}">>, supported |-> TRUE],
     [text |-> <<>>, supported |-> FALSE]}

NoReply == [text |-> <<>>, supported |-> FALSE]

\* ai_result before _parse_ai_json ran.
NoAiResult == [ok |-> FALSE, kind |-> "unset", value |-> <<>>]

\* ------------------------------------------------------------------- state
VARIABLES
    pc,               \* position in do_POST / fetch_page
    req,              \* the request body
    sb_key,           \* SCRAPINGBEE_API_KEY
    api_key,          \* ANTHROPIC_API_KEY
    raw_html,         \* fetch_page: raw_html
    content,          \* fetch_page: content
    openapi_content,  \* fetch_page: openapi_content
    json_content,     \* fetch_page: json_content
    spec,             \* _summarize_openapi: result before truncation
    rendered,         \* _scrapingbee_fetch: resp.text
    result,           \* what fetch_page returned
    raw,              \* do_POST: raw, the summarizer's reply
    url,              \* do_POST: url
    ai_result,        \* do_POST: ai_result
    arg,              \* the argument of the helper function being run
    ret,              \* what the helper function has produced so far
    response,         \* what _send_json sent
    calls             \* the calls made so far, in order, with their outcome

vars == <<pc, req, sb_key, api_key, raw_html, content, openapi_content,
          json_content, spec, rendered, result, raw, url, ai_result, arg, ret,
          response, calls>>

NoResult == [content |-> Unset, used_js |-> FALSE, returned |-> FALSE]

NoResponse == [status |-> 0, kind |-> "none", exc |-> "none", used_js |-> FALSE,
               guide |-> <<>>, source_url |-> ""]

Call(op, outcome) == [op |-> op, outcome |-> outcome]

\* ---------------------------------------------------------------- helpers
\* _extract_text(html): get_text(strip=True) leaves no outer whitespace.
ExtractText(page, s) == Truncate(MkText(s, 0, page.text, 0))

\* _extract_json_content(html): the joined texts are stripped strings.
ExtractJsonContent(page) == Truncate(MkText("json", 0, page.json, 0))

\* _summarize_openapi(spec): result, truncated.
SummarizeOpenapi(joined) == Truncate(joined)

\* len(content.strip()) < 200
InsufficientLE(s) == TrimLen(s) <= Threshold

InsufficientWide(s) == TrimLen(s) < TextLimit

Insufficient(s) == TrimLen(s) < Threshold

\* if len(candidate.strip()) > len(content.strip()): content = candidate
AdoptGE(cur, cand) == IF TrimLen(cand) >= TrimLen(cur) THEN cand ELSE cur

Adopt(cur, cand) == IF TrimLen(cand) > TrimLen(cur) THEN cand ELSE cur

\* content = _scrapingbee_fetch(url, sb_key)
RenderAdoptIfLonger(cur, text) == Adopt(cur, text)

RenderReplace(cur, text) == text

\* do_POST: len(page_content.strip()) < 50
LowContentUntrimmed(s) == StrLen(s) < MinContent

LowContent(s) == TrimLen(s) < MinContent

\* _extract_openapi_content: except Exception: return ""
OpenapiCatchesButTimeout(e) == ~IsTimeout(e)

OpenapiCatchesRequestOnly(e) == IsRequestException(e)

OpenapiCatches(e) == TRUE

\* What the spec fetch may raise inside the try: requests.get and
\* raise_for_status (TransportErrors), resp.json() (JSONDecodeError).
SpecFailures == TransportErrors \cup {"JSONDecodeError"}

\* What client.get(...) of the rendering service may raise.
RenderErrors == {"Timeout", "ConnectionError"}

\* An error answer: {"error": ...}
Resp(st, kind, e) == [status |-> st, kind |-> kind, exc |-> e, used_js |-> FALSE,
                      guide |-> <<>>, source_url |-> ""]

\* do_POST: except json.JSONDecodeError / except Exception
OuterExcept(e) ==
    IF e = "JSONDecodeError" THEN Resp(400, "bad_json", e)
    ELSE Resp(500, "internal", e)

\* do_POST: the except clauses around fetch_page(url); what they do not
\* catch reaches the outer ones.
FetchPageExceptAll502(e) ==
    IF IsRequestException(e) THEN Resp(502, "fetch_error", e)
    ELSE OuterExcept(e)

FetchPageExcept(e) ==
    IF IsTimeout(e) THEN Resp(504, "fetch_timeout", e)
    ELSE IF IsRequestException(e) THEN Resp(502, "fetch_error", e)
    ELSE OuterExcept(e)

\* do_POST: the except clause around generate_guide(url, page_content)
GenerateExcept(e) ==
    IF e = "APIError" THEN Resp(502, "ai_error", e)
    ELSE OuterExcept(e)

\* do_POST, except json.JSONDecodeError around _parse_ai_json:
\* {"guide": raw, "source_url": url, "supported": True, "used_js": used_js}
RawGuideResponseNoJs(rawtext, u, js) ==
    [status |-> 200, kind |-> "raw_guide", exc |-> "JSONDecodeError",
     used_js |-> FALSE, guide |-> rawtext, source_url |-> u]

RawGuideResponse(rawtext, u, js) ==
    [status |-> 200, kind |-> "raw_guide", exc |-> "JSONDecodeError",
     used_js |-> js, guide |-> rawtext, source_url |-> u]

\* do_POST: the two answers built from ai_result; the guide is a member of
\* the parsed object, written here as that object.
ParsedResponse(parsed, supported, u, js) ==
    [status |-> 200, kind |-> IF supported THEN "guide" ELSE "unsupported",
     exc |-> "none", used_js |-> js,
     guide |-> IF supported THEN parsed.value ELSE <<>>, source_url |-> u]

\* -------------------------------------------------------------------- Init
Init ==
    /\ pc = "request"
    /\ req \in Requests
    /\ sb_key \in EnvValues
    /\ api_key \in EnvValues
    /\ raw_html = NoPage
    /\ content = Unset
    /\ openapi_content = Unset
    /\ json_content = Unset
    /\ spec = Unset
    /\ rendered = NoPage
    /\ result = NoResult
    /\ raw = NoReply
    /\ url = ""
    /\ ai_result = NoAiResult
    /\ arg = <<>>
    /\ ret = <<>>
    /\ response = NoResponse
    /\ calls = <<>>

\* ----------------------------------------------------------------- actions
\* _send_json(status, ...) followed by return: the request is over.
Send(r) ==
    /\ response' = r
    /\ pc' = "done"

\* do_POST: read and parse the body, take the url.
ReadRequest ==
    /\ pc = "request"
    /\ IF req = "badjson" THEN Send(OuterExcept("JSONDecodeError"))
       ELSE IF req = "nourl" THEN Send(Resp(400, "missing_url", "none"))
       ELSE pc' = "fetch_raw" /\ UNCHANGED response
    /\ url' = IF req \in {"badjson", "nourl"} THEN url ELSE NormalizeUrl(req)
    /\ UNCHANGED <<req, sb_key, api_key, ai_result, arg, ret, raw_html, content, openapi_content,
                   json_content, spec, rendered, result, raw, calls>>

\* fetch_page step 1: raw_html = _fetch_raw(url).  An exception leaves
\* fetch_page and is handled by do_POST.
FetchRaw ==
    /\ pc = "fetch_raw"
    /\ \/ \E page \in Pages :
            /\ raw_html' = page
            /\ calls' = Append(calls, Call("fetch_raw", "ok"))
            /\ pc' = "extract_text"
            /\ UNCHANGED response
       \/ \E e \in TransportErrors :
            /\ calls' = Append(calls, Call("fetch_raw", e))
            /\ Send(FetchPageExcept(e))
            /\ UNCHANGED raw_html
    /\ UNCHANGED <<req, sb_key, api_key, url, ai_result, arg, ret, content, openapi_content,
                   json_content, spec, rendered, result, raw>>

\* fetch_page step 2: content = _extract_text(raw_html)
Step2 ==
    /\ pc = "extract_text"
    /\ content' = ExtractText(raw_html, "plain")
    /\ calls' = Append(calls, Call("extract_text", "ok"))
    /\ pc' = "step3"
    /\ UNCHANGED <<req, sb_key, api_key, url, ai_result, arg, ret, raw_html, openapi_content,
                   json_content, spec, rendered, result, raw, response>>

\* fetch_page step 3: if the content is insufficient, run
\* _extract_openapi_content(raw_html, url) and adopt its result if longer.
\* Without a spec URL the strategy returns ""; with one it fetches the spec
\* once: a failure inside the try returns "", a spec that parses is
\* summarized, and a parsed value _summarize_openapi cannot read (not an
\* object) raises outside the try.
Step3 ==
    /\ pc = "step3"
    /\ IF ~Insufficient(content)
       THEN /\ pc' = "step4"
            /\ UNCHANGED <<openapi_content, content, spec, calls, response>>
       ELSE IF ~raw_html.spec
       THEN /\ openapi_content' = EmptyStr
            /\ content' = Adopt(content, EmptyStr)
            /\ calls' = Append(calls, Call("openapi", "ok"))
            /\ pc' = "step4"
            /\ UNCHANGED <<spec, response>>
       ELSE \/ \E e \in SpecFailures :
                 /\ calls' = calls \o <<Call("openapi", "ok"), Call("spec_fetch", e)>>
                 /\ IF OpenapiCatches(e)
                    THEN /\ openapi_content' = EmptyStr
                         /\ content' = Adopt(content, EmptyStr)
                         /\ pc' = "step4"
                         /\ UNCHANGED response
                    ELSE /\ Send(FetchPageExcept(e))
                         /\ UNCHANGED <<openapi_content, content>>
                 /\ UNCHANGED spec
            \/ \E joined \in Summaries :
                 /\ calls' = calls \o <<Call("openapi", "ok"), Call("spec_fetch", "ok")>>
                 /\ spec' = joined
                 /\ openapi_content' = SummarizeOpenapi(joined)
                 /\ content' = Adopt(content, SummarizeOpenapi(joined))
                 /\ pc' = "step4"
                 /\ UNCHANGED response
            \/ /\ calls' = calls \o <<Call("openapi", "ok"), Call("spec_fetch", "ok")>>
               /\ Send(FetchPageExcept("AttributeError"))
               /\ UNCHANGED <<openapi_content, content, spec>>
    /\ UNCHANGED <<req, sb_key, api_key, url, ai_result, arg, ret, raw_html, json_content, rendered,
                   result, raw>>

\* fetch_page step 4: if still insufficient, run
\* _extract_json_content(raw_html) and adopt its result if longer.
Step4 ==
    /\ pc = "step4"
    /\ IF Insufficient(content)
       THEN /\ json_content' = ExtractJsonContent(raw_html)
            /\ content' = Adopt(content, ExtractJsonContent(raw_html))
            /\ calls' = Append(calls, Call("extract_json", "ok"))
       ELSE UNCHANGED <<json_content, content, calls>>
    /\ pc' = "step5"
    /\ UNCHANGED <<req, sb_key, api_key, url, ai_result, arg, ret, raw_html, openapi_content, spec,
                   rendered, result, raw, response>>

\* fetch_page step 5 and the return: if still insufficient and
\* SCRAPINGBEE_API_KEY is set, content = _scrapingbee_fetch(url, sb_key) and
\* used_js is True; a status other than 200 raises RequestException.
Step5 ==
    /\ pc = "step5"
    /\ IF Insufficient(content) /\ Truthy(sb_key)
       THEN \/ \E page \in {p \in Pages : ~p.spec /\ p.json = 0} :
                 /\ rendered' = page
                 /\ calls' = Append(calls, Call("render", "ok"))
                 /\ content' = RenderReplace(content, ExtractText(page, "rendered"))
                 /\ result' = [content |-> RenderReplace(content, ExtractText(page, "rendered")),
                               used_js |-> TRUE, returned |-> TRUE]
                 /\ pc' = "check_content"
                 /\ UNCHANGED response
            \/ /\ calls' = Append(calls, Call("render", "status"))
               /\ Send(FetchPageExcept("RequestException"))
               /\ UNCHANGED <<rendered, content, result>>
            \/ \E e \in RenderErrors :
                 /\ calls' = Append(calls, Call("render", e))
                 /\ Send(FetchPageExcept(e))
                 /\ UNCHANGED <<rendered, content, result>>
       ELSE /\ result' = [content |-> content, used_js |-> FALSE, returned |-> TRUE]
            /\ pc' = "check_content"
            /\ UNCHANGED <<rendered, content, calls, response>>
    /\ UNCHANGED <<req, sb_key, api_key, url, ai_result, arg, ret, raw_html, openapi_content,
                   json_content, spec, raw>>

\* do_POST: the low-content check on fetch_page's result.
CheckContent ==
    /\ pc = "check_content"
    /\ IF LowContent(result.content)
       THEN Send(Resp(422, "low_content", "none"))
       ELSE pc' = "generate" /\ UNCHANGED response
    /\ UNCHANGED <<req, sb_key, api_key, url, ai_result, arg, ret, raw_html, content, openapi_content,
                   json_content, spec, rendered, result, raw, calls>>

\* do_POST: raw = generate_guide(url, page_content).  Without
\* ANTHROPIC_API_KEY generate_guide raises ValueError before it builds the
\* client; the call itself returns the reply text or raises APIError.
GenerateGuide ==
    /\ pc = "generate"
    /\ IF ~Truthy(api_key)
       THEN /\ Send(GenerateExcept("ValueError"))
            /\ UNCHANGED <<raw, calls>>
       ELSE \/ /\ calls' = Append(calls, Call("summarize", "APIError"))
               /\ Send(GenerateExcept("APIError"))
               /\ UNCHANGED raw
            \/ \E reply \in Replies :
                 /\ calls' = Append(calls, Call("summarize", "ok"))
                 /\ raw' = reply
                 /\ pc' = "parse"
                 /\ UNCHANGED response
    /\ UNCHANGED <<req, sb_key, api_key, url, ai_result, arg, ret, raw_html, content, openapi_content,
                   json_content, spec, rendered, result>>

\* do_POST: ai_result = _parse_ai_json(raw) and the answer built from it.
ParseReply ==
    /\ pc = "parse"
    /\ ai_result' = ParseAiJson(raw.text)
    /\ Send(IF ~ParseAiJson(raw.text).ok
            THEN RawGuideResponse(raw.text, url, result.used_js)
            ELSE IF ParseAiJson(raw.text).kind # "object"
            THEN OuterExcept("AttributeError")
            ELSE ParsedResponse(ParseAiJson(raw.text), raw.supported, url,
                                result.used_js))
    /\ UNCHANGED <<req, sb_key, api_key, url, arg, ret, raw_html, content,
                   openapi_content, json_content, spec, rendered, result, raw,
                   calls>>

Next ==
    \/ ReadRequest
    \/ FetchRaw
    \/ Step2
    \/ Step3
    \/ Step4
    \/ Step5
    \/ CheckContent
    \/ GenerateGuide
    \/ ParseReply

Spec == Init /\ [][Next]_vars

\* ------------------------------------------------------------------ claims
Called(op) == \E i \in DOMAIN calls : calls[i].op = op

Outcome(op, o) == \E i \in DOMAIN calls : calls[i] = Call(op, o)

\* The stages of the pipeline and the calls they make, in the order of the
\* source.
Rank(op) ==
    CASE op = "fetch_raw" -> 1
      [] op = "extract_text" -> 2
      [] op = "openapi" -> 3
      [] op = "spec_fetch" -> 4
      [] op = "extract_json" -> 5
      [] op = "render" -> 6
      [] OTHER -> 7

\* fetch_page is over: it returned or raised.
FetchPageOver == pc \in {"check_content", "generate", "parse", "done"}

PlainOut == ExtractText(raw_html, "plain")

\* C1: when the plain text of the fetched page has trimmed length >= 200,
\* fetch_page returns exactly that text with used_js false, and the run
\* makes no OpenAPI detection or spec fetch, no embedded-JSON extraction and
\* no rendering call.
C1_PlainSufficient ==
    (Called("extract_text") /\ TrimLen(PlainOut) >= Threshold) =>
        /\ ~Called("openapi") /\ ~Called("spec_fetch")
        /\ ~Called("extract_json") /\ ~Called("render")
        /\ content = PlainOut
        /\ (FetchPageOver => result = [content |-> PlainOut, used_js |-> FALSE,
                                       returned |-> TRUE])

C1_Witness ==
    /\ pc = "done"
    /\ result.returned
    /\ TrimLen(result.content) = Threshold
    /\ result.content.src = "plain"
    /\ raw_html.spec
    /\ raw_html.json > Threshold
    /\ Truthy(sb_key)

\* C2: the stages run in the fixed order page fetch, plain text, OpenAPI
\* (with its spec fetch), embedded state, rendering, each at most once, the
\* page fetch and the plain text extraction before any other; and a stage
\* after the plain text extraction starts only from a content whose trimmed
\* length is below 200.
C2_OrderInv ==
    /\ \A i, j \in DOMAIN calls : i < j => Rank(calls[i].op) < Rank(calls[j].op)
    /\ \A i \in DOMAIN calls :
          /\ calls[i].op # "fetch_raw" => Outcome("fetch_raw", "ok")
          /\ calls[i].op \notin {"fetch_raw", "extract_text"} => Called("extract_text")
          /\ calls[i].op = "spec_fetch" => Called("openapi")

C2_StartsInsufficient ==
    \A op \in {"openapi", "spec_fetch", "extract_json", "render"} :
        (~Called(op) /\ Called(op)') =>
            (content # Unset /\ TrimLen(content) < Threshold)

\* C2: every step keeps the calls in stage order, each made at most once,
\* and starts a later stage only from a content of trimmed length below 200.
C2_OrderedShortCircuit == [][C2_StartsInsufficient /\ C2_OrderInv']_vars

C2_Witness ==
    /\ pc = "done"
    /\ Called("spec_fetch") /\ Called("extract_json") /\ Called("render")
    /\ Len(calls) >= 6

\* C3: in steps 3 and 4 the stage's result becomes the content exactly when
\* its trimmed length is greater than the content's; otherwise (equal or
\* shorter) the content is unchanged; so the content's trimmed length never
\* decreases from step 2 to the end of step 4.
C3_Step3 ==
    (pc = "step3" /\ pc' = "step4" /\ Called("openapi")') =>
        IF TrimLen(openapi_content') > TrimLen(content)
        THEN content' = openapi_content'
        ELSE content' = content

C3_Step4 ==
    (pc = "step4" /\ Called("extract_json")') =>
        IF TrimLen(json_content') > TrimLen(content)
        THEN content' = json_content'
        ELSE content' = content

\* C3: steps 3 and 4 adopt a result exactly when it is longer (trimmed) than
\* the content, and never shorten the content.
C3_AdoptIffLonger ==
    [][/\ C3_Step3
       /\ C3_Step4
       /\ (pc \in {"step3", "step4"} => TrimLen(content') >= TrimLen(content))]_vars

C3_Witness ==
    /\ pc = "step5"
    /\ content.src = "openapi"
    /\ content = openapi_content
    /\ json_content.src = "json"
    /\ TrimLen(json_content) = TrimLen(content)

\* C4: from an insufficient content after steps 2-4 and with the rendering
\* credential set, the rendering service is called, and when it answers 200
\* the plain text of the rendered page becomes the returned content whatever
\* its length, with used_js true; and fetch_page returns used_js true
\* exactly when the rendering call was made and succeeded.
C4_Step5 ==
    (pc = "step5" /\ Insufficient(content) /\ Truthy(sb_key)) =>
        /\ Called("render")'
        /\ pc' = "check_content" =>
              /\ Outcome("render", "ok")'
              /\ result' = [content |-> ExtractText(rendered', "rendered"),
                            used_js |-> TRUE, returned |-> TRUE]

C4_UsedJsInv ==
    /\ result.used_js <=> Outcome("render", "ok")
    /\ result.used_js => result.returned

\* C4: a successful rendering replaces the content whatever its length, and
\* used_js is true exactly when the rendering call succeeded.
C4_RenderReplaces == [][C4_Step5 /\ C4_UsedJsInv']_vars

C4_Witness ==
    /\ result.used_js
    /\ json_content.src = "json"
    /\ TrimLen(json_content) > MinContent
    /\ TrimLen(result.content) < MinContent
    /\ pc = "done"

\* C5: when the plain text, the OpenAPI strategy's result and the embedded
\* JSON text all have trimmed length below 50 and SCRAPINGBEE_API_KEY is not
\* set, the rendering service is never called, fetch_page returns used_js
\* false, do_POST answers 422 and generate_guide is never called.
C5_AllStaticLow ==
    /\ Called("extract_json")
    /\ TrimLen(PlainOut) < MinContent
    /\ TrimLen(openapi_content) < MinContent
    /\ TrimLen(json_content) < MinContent
    /\ ~Truthy(sb_key)

\* C5: all static texts below 50 and no rendering credential: no rendering
\* call, used_js false, answer 422, no summarization call.
C5_InsufficientContent ==
    C5_AllStaticLow =>
        /\ ~Called("render")
        /\ ~Called("summarize")
        /\ pc \in {"step5", "check_content", "done"}
        /\ pc # "step5" => result.returned /\ ~result.used_js
        /\ pc = "done" => response = Resp(422, "low_content", "none")

C5_Witness ==
    /\ C5_AllStaticLow
    /\ pc = "done"
    /\ response.status = 422
    /\ openapi_content.src = "openapi"
    /\ StrLen(openapi_content) >= MinContent
    /\ Truthy(api_key)

\* The length of the text the strategy that supplied s produced, before
\* the truncation step.
SourceLen(s) ==
    CASE s.src = "plain" -> raw_html.text
      [] s.src = "json" -> raw_html.json
      [] s.src = "openapi" -> StrLen(spec)
      [] s.src = "rendered" -> rendered.text
      [] OTHER -> 0

\* C6: whatever strategy supplied it, the text fetch_page returns is at most
\* 12000 characters plus the marker long; it carries the marker only if the
\* strategy's text was longer than 12000 characters, and a strategy's text
\* of at most 12000 characters is returned as it is.
C6_LengthBound ==
    result.returned =>
        /\ StrLen(result.content) <= TextLimit + MarkerLen
        /\ result.content.cut => SourceLen(result.content) > TextLimit
        /\ SourceLen(result.content) <= TextLimit =>
              /\ ~result.content.cut
              /\ StrLen(result.content) = SourceLen(result.content)
              /\ result.content.src = "openapi" => result.content = spec
        /\ SourceLen(result.content) > TextLimit =>
              /\ result.content.cut
              /\ StrLen(result.content) = TextLimit + MarkerLen

C6_Witness ==
    /\ result.returned
    /\ result.content.src = "openapi"
    /\ result.content.cut
    /\ StrLen(spec) = TextLimit + 1
    /\ StrLen(result.content) = TextLimit + MarkerLen

\* C7: when the page fetch times out or fails, no extraction runs and
\* fetch_page returns nothing; do_POST answers 504 for a timeout and 502 for
\* any other failure, and generate_guide is never called.
C7_PageFetchFailure ==
    \A e \in TransportErrors :
        Outcome("fetch_raw", e) =>
            /\ calls = <<Call("fetch_raw", e)>>
            /\ pc = "done"
            /\ ~result.returned
            /\ content = Unset
            /\ response = IF e = "Timeout" THEN Resp(504, "fetch_timeout", e)
                          ELSE Resp(502, "fetch_error", e)

C7_Witness ==
    /\ calls = <<Call("fetch_raw", "Timeout")>>
    /\ response.status = 504
    /\ Truthy(api_key)

SpecFetchFailed == \E e \in SpecFailures : Outcome("spec_fetch", e)

\* C8: when the spec fetch fails or its body is not JSON, the OpenAPI
\* strategy yields "", fetch_page goes on to step 4 with the content it had
\* and no response is sent, and the embedded-state strategy runs next.
C8_Step3 ==
    (~SpecFetchFailed /\ SpecFetchFailed') =>
        /\ pc = "step3" /\ pc' = "step4"
        /\ openapi_content' = EmptyStr
        /\ content' = content
        /\ response' = NoResponse

C8_Step4 ==
    (SpecFetchFailed /\ pc = "step4") => (pc' = "step5" /\ Called("extract_json")')

\* C8: a failed spec fetch yields "", leaves the content and the response
\* alone, and is followed by the embedded-state extraction.
C8_SpecFailureSwallowed == [][C8_Step3 /\ C8_Step4]_vars

C8_Witness ==
    /\ Outcome("spec_fetch", "JSONDecodeError")
    /\ pc = "done"
    /\ response.status = 200
    /\ result.content.src = "json"

TimedOut(ops) == \E i \in DOMAIN calls : calls[i].op \in ops /\ calls[i].outcome = "Timeout"

\* C9 as stated: a run in which the page fetch, the spec fetch or the render
\* call timed out ends with the timeout reported.
C9_EveryTimeoutReported ==
    (pc = "done" /\ TimedOut({"fetch_raw", "spec_fetch", "render"})) =>
        response.kind = "fetch_timeout"

\* C9 amended: a timeout of the page fetch or of the render call ends the
\* request with the timeout answer (504), which no other failure produces;
\* a timeout of the spec fetch is not reported: the request goes on and its
\* answer is a timeout answer only if the render call timed out.
C9_PageAndRenderTimeoutReported ==
    /\ TimedOut({"fetch_raw", "render"}) =>
          (pc = "done" /\ response = Resp(504, "fetch_timeout", "Timeout"))
    /\ (response.status = 504 \/ response.kind = "fetch_timeout") =>
          TimedOut({"fetch_raw", "render"})
    /\ Outcome("spec_fetch", "Timeout") =>
          /\ openapi_content = EmptyStr
          /\ pc = "done" /\ ~TimedOut({"render"}) => response.kind # "fetch_timeout"

C9_Witness ==
    /\ Outcome("spec_fetch", "Timeout")
    /\ Outcome("render", "Timeout")
    /\ response.status = 504

\* C10: a request that ends with the missing-credential failure of
\* generate_guide has made no page fetch, spec fetch or render call.
C10_NoNetworkBeforeConfigMissing ==
    (pc = "done" /\ response.exc = "ValueError") =>
        ~(Called("fetch_raw") \/ Called("spec_fetch") \/ Called("render"))

\* ------------------------------------------------- _parse_ai_json alone
\* Every reply of at most MaxReply tokens.
ReplyTexts == UNION {[1..n -> Tokens] : n \in 0..MaxReply}

\* The variables of a request that has not started.
RequestIdle ==
    /\ req = "url"
    /\ sb_key = "None"
    /\ api_key = "None"
    /\ raw_html = NoPage
    /\ content = Unset
    /\ openapi_content = Unset
    /\ json_content = Unset
    /\ spec = Unset
    /\ rendered = NoPage
    /\ result = NoResult
    /\ url = ""
    /\ response = NoResponse
    /\ calls = <<>>

ParseInit ==
    /\ pc = "parse_input"
    /\ raw \in [text : ReplyTexts, supported : {FALSE}]
    /\ ai_result = NoAiResult
    /\ arg = <<>>
    /\ ret = <<>>
    /\ RequestIdle

\* ai_result = _parse_ai_json(raw)
ParseStep ==
    /\ pc = "parse_input"
    /\ ai_result' = ParseAiJson(raw.text)
    /\ pc' = "parsed"
    /\ UNCHANGED <<req, sb_key, api_key, raw_html, content, openapi_content,
                   json_content, spec, rendered, result, raw, url, arg, ret,
                   response, calls>>

ParseNext == ParseStep

ParseSpec == ParseInit /\ [][ParseNext]_vars

\* C11: whenever _parse_ai_json fails on the summarizer's reply, do_POST
\* answers 200 with the reply text itself as the guide, the (normalized)
\* url as source_url and the used_js flag fetch_page returned.
C11_ParseFailurePassthrough ==
    (pc = "done" /\ Outcome("summarize", "ok") /\ ~ai_result.ok) =>
        /\ response.status = 200
        /\ response.kind = "raw_guide"
        /\ response.guide = raw.text
        /\ response.source_url = url
        /\ url = (IF req = "bare" THEN "https://host" ELSE "http://host")
        /\ response.used_js = result.used_js

C11_Witness ==
    /\ pc = "done"
    /\ Outcome("summarize", "ok")
    /\ ~ai_result.ok
    /\ raw.text = <<"j", "j">>
    /\ result.used_js
    /\ response.status = 200
    /\ req = "bare"

\* The reply is an object between two fences, the first optionally tagged
\* json; Unfenced is that object.
Unfenced(s) ==
    LET inner == Slice(s, 2, Len(s) - 1)
    IN  StripSeq(IF inner # <<>> /\ inner[1] = "j" THEN Tail(inner) ELSE inner)

FencedObject(s) ==
    /\ Len(s) >= 2
    /\ s[1] = "f" /\ s[Len(s)] = "f"
    /\ IsJsonObject(Unfenced(s))

\* The reply is prose (words and spaces, at least one word) up to k, then
\* an object.
ProseThenObjectAt(s, k) ==
    /\ \A i \in 1..k : s[i] \in {"j", "w"}
    /\ \E i \in 1..k : s[i] = "j"
    /\ IsJsonObject(StripSeq(Slice(s, k + 1, Len(s))))

ContainsObject(s) ==
    \E a \in DOMAIN s : \E b \in DOMAIN s : a < b /\ IsJsonObject(SubSeq(s, a, b))

ObjectResult(o) == [ok |-> TRUE, kind |-> "object", value |-> o]

\* C12: _parse_ai_json returns the object of a reply that is that object in
\* a fence (optionally tagged json) or after prose, fails on every reply
\* that contains no JSON object, and returns nothing but JSON objects.
C12_ParsesObjectOrFails ==
    pc = "parsed" =>
        /\ FencedObject(raw.text) => ai_result = ObjectResult(Unfenced(raw.text))
        /\ \A k \in 1..Len(raw.text) :
              ProseThenObjectAt(raw.text, k) =>
                  ai_result = ObjectResult(StripSeq(Slice(raw.text, k + 1, Len(raw.text))))
        /\ ~ContainsObject(raw.text) => ~ai_result.ok
        /\ ai_result.ok => ai_result.kind = "object"

\* C16: on a reply that is, once stripped, a well-formed JSON object,
\* _parse_ai_json returns exactly that object, whatever its string holds
\* (fences, braces).
C16_ObjectReplyParsesToItself ==
    (pc = "parsed" /\ IsJsonObject(StripSeq(raw.text))) =>
        ai_result = ObjectResult(StripSeq(raw.text))

\* ------------------------------------------------------------------ C15
\* How a call of the rendering service can fail: a status other than 200
\* (raised as RequestException by _scrapingbee_fetch) or an error of the
\* client's own request.
RenderFailures == {"status"} \cup RenderErrors

RenderFailed == \E o \in RenderFailures : Outcome("render", o)

\* C15: when the rendering service was called and failed, the request is
\* over with 504 (timeout) or 502 (any other failure), fetch_page returned
\* nothing, whatever static content steps 2-4 had found, and the
\* summarizer was never called.
C15_RenderFailureSurfaces ==
    RenderFailed =>
        /\ pc = "done"
        /\ ~result.returned
        /\ ~Called("summarize")
        /\ calls[Len(calls)].op = "render"
        /\ response = (IF Outcome("render", "Timeout")
                         THEN Resp(504, "fetch_timeout", "Timeout")
                       ELSE IF Outcome("render", "ConnectionError")
                         THEN Resp(502, "fetch_error", "ConnectionError")
                       ELSE Resp(502, "fetch_error", "RequestException"))

\* The render returned a status other than 200 while the static content
\* was long enough to pass the low-content check.
C15_Witness ==
    /\ Outcome("render", "status")
    /\ ~LowContent(content)
    /\ response.status = 502
    /\ Truthy(api_key)

\* ------------------------------------------------- _summarize_openapi paths
\* The endpoint list of _summarize_openapi, on specs given as the sequence
\* of their paths in document order, one operation per path.  A path is
\* known by what the keyword pattern finds in it:
\*   "billing"  the path contains "billing" (so the keyword "bill" matches it)
\*   "pathkw"   the path matches another keyword ("/shipments", "/tax/...")
\*   "textkw"   only the summary, description or tags match a keyword
\*   "none"     nothing matches
PathKinds == {"billing", "pathkw", "textkw", "none"}

\* relevant_paths[:30]
EndpointCap == 30

\* list(paths.items())[:50]
AllCap == 50

\* Specs are built from at most MaxBlocks runs of equal paths.
MaxBlocks == 3

RunLengths == {1, EndpointCap, AllCap + 1}

\* The length of a short entry ("\n### GET /billing"); a long one (a long
\* summary, many schemas) has TextLimit characters.
ShortEntry == 17

RECURSIVE Expand(_)
Expand(blocks) ==
    IF blocks = <<>> THEN <<>>
    ELSE [i \in 1..Head(blocks).count |-> Head(blocks).kind] \o Expand(Tail(blocks))

Blocks == [kind : PathKinds, count : RunLengths]

OpenapiSpecs ==
    {[paths |-> Expand(b), long |-> l] :
        b \in UNION {[1..n -> Blocks] : n \in 0..MaxBlocks}, l \in BOOLEAN}

\* path_relevant = bool(keyword_pattern.search(path))
PathRelevant(kind) == kind \in {"billing", "pathkw"}

\* keyword_pattern.search(combined), combined beginning with the path
CombinedMatches(kind) == kind \in {"billing", "pathkw", "textkw"}

RelevantTextOnly(kind) == kind = "textkw"

\* if path_relevant or keyword_pattern.search(combined)
Relevant(kind) == PathRelevant(kind) \/ CombinedMatches(kind)

\* The for loop over paths.items(): the indices of the paths whose
\* operation is appended to relevant_paths, in order.
RECURSIVE RelevantPaths(_, _)
RelevantPaths(paths, i) ==
    IF i > Len(paths) THEN <<>>
    ELSE (IF Relevant(paths[i]) THEN <<i>> ELSE <<>>) \o RelevantPaths(paths, i + 1)

\* seq[:n]
Prefix(seq, n) == SubSeq(seq, 1, Min(n, Len(seq)))

\* len(str(n))
Digits(n) == IF n < 10 THEN 1 ELSE IF n < 100 THEN 2 ELSE 3

\* "\n## Relevant API Endpoints (N found)" and "\n## All API Endpoints (N total)"
HeadingLen(heading, n) == (IF heading = "relevant" THEN 35 ELSE 30) + Digits(n)

EntryLen(long) == IF long THEN TextLimit ELSE ShortEntry

\* "\n".join(parts) of a heading and n entries
JoinedLen(heading, found, n, long) ==
    HeadingLen(heading, found) + n * (1 + EntryLen(long))

\* The output: the heading, the count it states, the entries whose first
\* line ("### METHOD path") is in the returned text, and whether the text
\* was cut at TextLimit (result[:12000]).
SummarizeEndpoints(api) ==
    LET relevant_paths == RelevantPaths(api.paths, 1)
        heading == IF relevant_paths # <<>> THEN "relevant" ELSE "all"
        found == IF relevant_paths # <<>> THEN Len(relevant_paths) ELSE Len(api.paths)
        entries == IF relevant_paths # <<>>
                   THEN Prefix(relevant_paths, EndpointCap)
                   ELSE Prefix([i \in 1..Len(api.paths) |-> i], AllCap)
        total == JoinedLen(heading, found, Len(entries), api.long)
        cut == total > TextLimit
        room == TextLimit - HeadingLen(heading, found) - 1 - ShortEntry
        shown == IF cut
                 THEN Min(Len(entries), (room \div (1 + EntryLen(api.long))) + 1)
                 ELSE Len(entries)
    IN  [heading |-> heading, found |-> found, listed |-> Prefix(entries, shown),
         cut |-> cut, length |-> IF cut THEN TextLimit + MarkerLen ELSE total]

SummaryInit ==
    /\ pc = "summarize_input"
    /\ arg \in OpenapiSpecs
    /\ ret = <<>>
    /\ raw = NoReply
    /\ ai_result = NoAiResult
    /\ RequestIdle

\* summary = _summarize_openapi(spec)
SummaryStep ==
    /\ pc = "summarize_input"
    /\ ret' = SummarizeEndpoints(arg)
    /\ pc' = "summarized"
    /\ UNCHANGED <<req, sb_key, api_key, raw_html, content, openapi_content,
                   json_content, spec, rendered, result, raw, url, arg, ai_result,
                   response, calls>>

SummaryNext == SummaryStep

SummarySpec == SummaryInit /\ [][SummaryNext]_vars

\* ------------------------------------------------------------------ C13
Listed(i) == \E k \in DOMAIN ret.listed : ret.listed[k] = i

\* The number of relevant endpoints up to and including the i-th.
RelevantRank(i) ==
    Cardinality({j \in 1..i : arg.paths[j] \in {"billing", "pathkw", "textkw"}})

SomeRelevant == \E j \in DOMAIN arg.paths : arg.paths[j] # "none"

\* C13 as stated: every endpoint whose path contains "billing" is listed,
\* whatever the number of relevant endpoints, and an endpoint matching no
\* keyword is not listed when some endpoint is relevant.
C13_EveryBillingEndpointListed ==
    pc = "summarized" =>
        \A i \in DOMAIN arg.paths :
            /\ arg.paths[i] = "billing" => Listed(i)
            /\ (arg.paths[i] = "none" /\ SomeRelevant) => ~Listed(i)

\* C13 amended: an endpoint whose path contains "billing" is listed when it
\* is among the first 30 relevant endpoints in document order and the
\* summary was not cut at 12000 characters, and it is not listed when it
\* comes after the first 30; an endpoint matching no keyword is not listed
\* when some endpoint is relevant.
C13_BillingListedWithinCap ==
    pc = "summarized" =>
        \A i \in DOMAIN arg.paths :
            /\ (arg.paths[i] = "billing" /\ RelevantRank(i) <= EndpointCap /\ ~ret.cut)
                   => Listed(i)
            /\ (arg.paths[i] # "none" /\ RelevantRank(i) > EndpointCap) => ~Listed(i)
            /\ (arg.paths[i] = "none" /\ SomeRelevant) => ~Listed(i)

\* A spec with more than 30 relevant endpoints, one with a "billing" path
\* among the first 30 and listed, an irrelevant one left out.
C13_Witness ==
    /\ pc = "summarized"
    /\ ret.found > EndpointCap
    /\ ~ret.cut
    /\ \E i \in DOMAIN arg.paths :
           arg.paths[i] = "billing" /\ RelevantRank(i) = EndpointCap /\ Listed(i)
    /\ \E i \in DOMAIN arg.paths : arg.paths[i] = "none" /\ ~Listed(i)

\* --------------------------------------------------------- _describe_schema
\* if depth > 3: return ""
DepthCeiling == 3

\* if depth < 2 and name in all_schemas
RefDepth == 2

\* list(props.keys())[:8]
PreviewCap == 8

\* Arrays are nested at most MaxNest deep in the schemas described, apart
\* from the array that is its own items.
MaxNest == 5

\* components.schemas, each name with the number of its properties: Node is
\* an object whose property next is a $ref to Node, List an array whose
\* items are a $ref to List, Big an object with more properties than the
\* preview shows, Empty a schema with no keys.  "Missing" is a name the
\* table does not have.
all_schemas == [Node |-> 1, List |-> 0, Big |-> PreviewCap + 1, Empty |-> 0]

SchemaNames == DOMAIN all_schemas \cup {"Missing"}

\* What is found under the arrays: a $ref, an object with some properties,
\* a primitive type, or a schema without "type".
Leaves ==
    {[kind |-> "ref", name |-> n, props |-> 0] : n \in SchemaNames}
    \cup {[kind |-> "object", name |-> "", props |-> k] : k \in {0, 2, PreviewCap + 1}}
    \cup {[kind |-> "string", name |-> "", props |-> 0],
          [kind |-> "", name |-> "", props |-> 0]}

\* A schema: nest arrays around a leaf, or (loop) an array whose items is
\* the array itself.
SchemaInputs ==
    {[nest |-> n, loop |-> FALSE, leaf |-> l] : n \in 0..MaxNest, l \in Leaves}
    \cup {[nest |-> 1, loop |-> TRUE, leaf |-> [kind |-> "", name |-> "", props |-> 0]]}

\* "$ref" in schema
IsRef(schema) == ~schema.loop /\ schema.nest = 0 /\ schema.leaf.kind = "ref"

\* schema.get("type", "")
SchemaType(schema) ==
    IF schema.loop \/ schema.nest > 0 THEN "array"
    ELSE IF schema.leaf.kind = "ref" THEN ""
    ELSE schema.leaf.kind

\* schema.get("items", {})
Items(schema) == IF schema.loop THEN schema ELSE [schema EXCEPT !.nest = @ - 1]

\* One piece of the returned string: a word, the number of property names
\* in parentheses after it, and whether "..." follows them.
Part(text, shown, more) == [text |-> text, shown |-> shown, more |-> more]

ArrayOf == Part("array of", 0, FALSE)

DepthExceededLate(depth) == depth > DepthCeiling + 1

DepthExceeded(depth) == depth > DepthCeiling

\* The $ref branch: the name with a preview of the properties, or the name.
DescribeRef(name, depth) ==
    IF depth < RefDepth /\ name \in DOMAIN all_schemas /\ all_schemas[name] > 0
    THEN Part(name, Min(all_schemas[name], PreviewCap), all_schemas[name] > PreviewCap)
    ELSE Part(name, 0, FALSE)

\* The "object" branch and the final return schema_type.
DescribeLeaf(schema) ==
    IF SchemaType(schema) = "object"
    THEN Part("object", Min(schema.leaf.props, PreviewCap), FALSE)
    ELSE Part(SchemaType(schema), 0, FALSE)

Frame(schema, depth) == [schema |-> schema, depth |-> depth]

\* arg holds the arguments of the calls in progress, innermost last; ret
\* holds the pieces of the value being returned.
SchemaInit ==
    /\ pc = "describe_call"
    /\ \E schema \in SchemaInputs : arg = <<Frame(schema, 0)>>
    /\ ret = <<>>
    /\ raw = NoReply
    /\ ai_result = NoAiResult
    /\ RequestIdle

\* The body of _describe_schema(schema, all_schemas, depth) up to its
\* return or its recursive call.
DescribeCall ==
    /\ pc = "describe_call"
    /\ LET schema == arg[Len(arg)].schema
           depth == arg[Len(arg)].depth
       IN  IF DepthExceeded(depth)
           THEN ret' = <<Part("", 0, FALSE)>> /\ pc' = "describe_return" /\ UNCHANGED arg
           ELSE IF IsRef(schema)
           THEN /\ ret' = <<DescribeRef(schema.leaf.name, depth)>>
                /\ pc' = "describe_return"
                /\ UNCHANGED arg
           ELSE IF SchemaType(schema) = "array"
           THEN /\ arg' = Append(arg, Frame(Items(schema), depth + 1))
                /\ UNCHANGED <<pc, ret>>
           ELSE /\ ret' = <<DescribeLeaf(schema)>>
                /\ pc' = "describe_return"
                /\ UNCHANGED arg
    /\ UNCHANGED <<req, sb_key, api_key, raw_html, content, openapi_content,
                   json_content, spec, rendered, result, raw, url, ai_result,
                   response, calls>>

\* A call returns: to the array branch of its caller, which puts
\* "array of " before the value and returns in turn, or to the first caller.
DescribeReturn ==
    /\ pc = "describe_return"
    /\ IF Len(arg) = 1
       THEN pc' = "described" /\ UNCHANGED <<arg, ret>>
       ELSE /\ arg' = SubSeq(arg, 1, Len(arg) - 1)
            /\ ret' = <<ArrayOf>> \o ret
            /\ UNCHANGED pc
    /\ UNCHANGED <<req, sb_key, api_key, raw_html, content, openapi_content,
                   json_content, spec, rendered, result, raw, url, ai_result,
                   response, calls>>

SchemaNext == DescribeCall \/ DescribeReturn

\* A call in progress takes its next step.
SchemaSpec == SchemaInit /\ [][SchemaNext]_vars /\ WF_vars(SchemaNext)

\* ------------------------------------------------------------------ C14
\* The innermost call has just produced its value.
InnermostReturned == pc \in {"describe_return", "described"} /\ Len(ret) = 1

\* No call is deeper than one past the ceiling, only arrays at depth 3 or
\* less have called, the call past the ceiling returns "" at once, and a
\* $ref at depth 2 or more, or to a name without properties to show (the
\* array that refers to itself, an unknown name), returns the bare name.
C14_DepthInv ==
    pc \in {"describe_call", "describe_return", "described"} =>
        /\ \A i \in DOMAIN arg :
               /\ arg[i].depth = i - 1
               /\ arg[i].depth <= DepthCeiling + 1
               /\ i < Len(arg) =>
                      /\ arg[i].depth <= DepthCeiling
                      /\ arg[i].schema.loop \/ arg[i].schema.nest > 0
        /\ Len(ret) <= DepthCeiling + 2
        /\ InnermostReturned =>
               LET top == arg[Len(arg)]
               IN  /\ top.depth > DepthCeiling => ret[1] = Part("", 0, FALSE)
                   /\ (/\ top.depth <= DepthCeiling
                       /\ top.schema.nest = 0 /\ ~top.schema.loop
                       /\ top.schema.leaf.kind = "ref"
                       /\ \/ top.depth >= 2
                          \/ top.schema.leaf.name \in {"List", "Empty", "Missing"})
                          => ret[1] = Part(top.schema.leaf.name, 0, FALSE)

\* C14: _describe_schema terminates on every schema, the self-referential
\* ones included; no schema is looked at past depth 3 (a call at depth 4
\* returns "" without looking), and an unresolved reference yields the
\* bare name.
C14_DescribeSchemaTerminates ==
    /\ []C14_DepthInv
    /\ <>(pc = "described")

\* The array that is its own items has been described, four levels deep.
C14_Witness ==
    /\ pc = "described"
    /\ arg[1].schema.loop
    /\ ret = <<ArrayOf, ArrayOf, ArrayOf, ArrayOf, Part("", 0, FALSE)>>

============================================================================
